---------------------------- MODULE Spec2Model ----------------------------
(***************************************************************************)
(* The Focus request/reply protocol of keyboardio/focus-send.              *)
(*                                                                         *)
(*   kaleidoscope/src/lib.rs   the library session   (struct Focus)        *)
(*   src/main.rs               the command line tool (main, flush, ...)    *)
(*                                                                         *)
(* Text is a sequence of code points, a byte string a sequence of numbers  *)
(* 0..255.  The serial port (the Transport) is the environment: every call *)
(* of it returns one of the outcomes the serialport crate can return, and  *)
(* the model records each call, hook invocation and sleep in `log`.        *)
(***************************************************************************)
EXTENDS Integers, Sequences, FiniteSets, TLC

(***************************************************************************)
(* Characters and program constants                                         *)
(***************************************************************************)
LF == 10
CR == 13
SP == 32
DOT == 46
REPLACEMENT == 65533

DefaultChunkSize == 32
DefaultWriteDelay == 500
CliChunkSize == 64
CliWriteDelay == 50
CliPollDelay == 100
CliReadDelay == 100
BufferSize == 1024

(***************************************************************************)
(* Bounds of the model                                                      *)
(***************************************************************************)
MaxChunk == 3
MaxReads == 2
MaxPolls == 2
MaxRaw == 5
MaxTok == 2
MaxArgs == 2

(***************************************************************************)
(* Sequences                                                                *)
(***************************************************************************)
Min(a, b) == IF a < b THEN a ELSE b

RECURSIVE SeqsUpTo(_, _)
SeqsUpTo(S, n) ==
    IF n = 0 THEN {<<>>}
    ELSE LET shorter == SeqsUpTo(S, n - 1)
         IN  shorter \cup {Append(s, x) : s \in {t \in shorter : Len(t) = n - 1}, x \in S}

Rep(x, n) == [i \in 1..n |-> x]

RECURSIVE Concat(_)
Concat(ss) == IF ss = <<>> THEN <<>> ELSE Head(ss) \o Concat(Tail(ss))

(* slice::concat on a pair of vectors: [vec![command], args].concat()      *)
VecConcat(a, b) == a \o b

(* Option<Vec<String>>                                                      *)
None == [some |-> FALSE, v |-> <<>>]
Some(v) == [some |-> TRUE, v |-> v]
unwrap_or_default(o) == IF o.some THEN o.v ELSE <<>>

(* Mutation of join: sep after every string, the last one too *)
RECURSIVE joinTrailing(_, _)
joinTrailing(strs, sep) ==
    IF strs = <<>> THEN <<>> ELSE strs[1] \o sep \o joinTrailing(Tail(strs), sep)

(* [String]::join(sep): the strings with sep between adjacent ones          *)
RECURSIVE join(_, _)
join(strs, sep) ==
    IF strs = <<>> THEN <<>>
    ELSE IF Len(strs) = 1 THEN strs[1]
    ELSE strs[1] \o sep \o join(Tail(strs), sep)

(* The request line: lib.rs:73, main.rs:137                                 *)
Frame(cmd, a) == join(VecConcat(<<cmd>>, a), <<SP>>) \o <<LF>>

(* Mutation of Chunks: slices of n + 1 elements *)
RECURSIVE ChunksTooLong(_, _)
ChunksTooLong(s, n) ==
    IF s = <<>> THEN <<>>
    ELSE LET k == Min(n + 1, Len(s))
         IN  <<SubSeq(s, 1, k)>> \o ChunksTooLong(SubSeq(s, k + 1, Len(s)), n)

(* slice::chunks(n) for n > 0: consecutive slices of n elements, the last   *)
(* one shorter when n does not divide the length.  chunks(0) panics; the    *)
(* callers below test for it before they use Chunks.                        *)
RECURSIVE Chunks(_, _)
Chunks(s, n) ==
    IF s = <<>> THEN <<>>
    ELSE LET k == Min(n, Len(s))
         IN  <<SubSeq(s, 1, k)>> \o Chunks(SubSeq(s, k + 1, Len(s)), n)

(***************************************************************************)
(* String::from_utf8_lossy: UTF-8 decoding in which every maximal invalid   *)
(* part of the input becomes one U+FFFD.                                    *)
(***************************************************************************)
IsCont(b) == b >= 128 /\ b <= 191

(* number of continuation bytes the lead byte b announces, 0 for a byte     *)
(* that cannot start a multi-byte sequence                                  *)
Utf8Need(b) ==
    IF b >= 194 /\ b <= 223 THEN 1
    ELSE IF b >= 224 /\ b <= 239 THEN 2
    ELSE IF b >= 240 /\ b <= 244 THEN 3
    ELSE 0

(* the second byte's range depends on the lead byte *)
Utf8Second(lead, b) ==
    IF lead = 224 THEN b >= 160 /\ b <= 191
    ELSE IF lead = 237 THEN b >= 128 /\ b <= 159
    ELSE IF lead = 240 THEN b >= 144 /\ b <= 191
    ELSE IF lead = 244 THEN b >= 128 /\ b <= 143
    ELSE IsCont(b)

(* <<code point, bytes consumed>> of the first character of a non-empty b   *)
Utf8First(b) ==
    LET b1 == b[1]
        need == Utf8Need(b1)
        n == Len(b)
    IN  IF b1 < 128 THEN <<b1, 1>>
        ELSE IF need = 0 THEN <<REPLACEMENT, 1>>
        ELSE IF n < 2 \/ ~Utf8Second(b1, b[2]) THEN <<REPLACEMENT, 1>>
        ELSE IF need = 1 THEN <<(b1 % 32) * 64 + (b[2] % 64), 2>>
        ELSE IF n < 3 \/ ~IsCont(b[3]) THEN <<REPLACEMENT, 2>>
        ELSE IF need = 2 THEN <<(b1 % 16) * 4096 + (b[2] % 64) * 64 + (b[3] % 64), 3>>
        ELSE IF n < 4 \/ ~IsCont(b[4]) THEN <<REPLACEMENT, 3>>
        ELSE <<(b1 % 8) * 262144 + (b[2] % 64) * 4096 + (b[3] % 64) * 64 + (b[4] % 64), 4>>

RECURSIVE from_utf8_lossy(_)
from_utf8_lossy(b) ==
    IF b = <<>> THEN <<>>
    ELSE LET f == Utf8First(b)
         IN  <<f[1]>> \o from_utf8_lossy(SubSeq(b, f[2] + 1, Len(b)))

(* The UTF-8 bytes of a string (String::as_bytes / into_bytes)              *)
Utf8Char(c) ==
    IF c < 128 THEN <<c>>
    ELSE IF c < 2048 THEN <<192 + (c \div 64), 128 + (c % 64)>>
    ELSE IF c < 65536 THEN <<224 + (c \div 4096), 128 + ((c \div 64) % 64), 128 + (c % 64)>>
    ELSE <<240 + (c \div 262144), 128 + ((c \div 4096) % 64),
           128 + ((c \div 64) % 64), 128 + (c % 64)>>

RECURSIVE as_bytes(_)
as_bytes(s) == IF s = <<>> THEN <<>> ELSE Utf8Char(Head(s)) \o as_bytes(Tail(s))

(***************************************************************************)
(* str::lines: the string is cut after every "\n" (split_inclusive); a      *)
(* piece that ends in "\n" loses it, and then loses one "\r" if it ends in  *)
(* one; a last piece without "\n" is returned as it is.                     *)
(***************************************************************************)
RECURSIVE IndexOf(_, _, _)
IndexOf(s, c, i) ==
    IF i > Len(s) THEN 0 ELSE IF s[i] = c THEN i ELSE IndexOf(s, c, i + 1)

RECURSIVE split_inclusive(_, _)
split_inclusive(s, c) ==
    IF s = <<>> THEN <<>>
    ELSE LET i == IndexOf(s, c, 1)
         IN  IF i = 0 THEN <<s>>
             ELSE <<SubSeq(s, 1, i)>> \o split_inclusive(SubSeq(s, i + 1, Len(s)), c)

strip_line(piece) ==
    IF piece = <<>> \/ piece[Len(piece)] # LF THEN piece
    ELSE LET l == SubSeq(piece, 1, Len(piece) - 1)
         IN  IF l = <<>> \/ l[Len(l)] # CR THEN l
             ELSE SubSeq(l, 1, Len(l) - 1)

lines(s) ==
    LET p == split_inclusive(s, LF)
    IN  [i \in 1..Len(p) |-> strip_line(p[i])]

(* Mutation of keep_line: the sentinel line is kept *)
keep_line_sentinel(l) == l # <<>>

(* the filter closure |l| !l.is_empty() && *l != "."                        *)
keep_line(l) == l # <<>> /\ l # <<DOT>>

(* main.rs cleanup_reply, and the tail of Focus::read_reply                 *)
cleanup_reply(reply) == join(SelectSeq(lines(reply), keep_line), <<LF>>)

(* String::from_utf8_lossy(&reply), then the clean-up: lib.rs:110, main.rs:185 *)
normalize(bytes) == cleanup_reply(from_utf8_lossy(bytes))

(***************************************************************************)
(* The state                                                                *)
(***************************************************************************)
VARIABLES
    prog,        \* "lib": a Focus session, "cli": one run of main,
                 \* "enc", "norm": the pure functions applied to drawn inputs
    pc,          \* the place the running operation has reached
    op,          \* the operation running (or the last one run)
    chunk_size,  \* Focus.chunk_size
    write_delay, \* Focus.write_delay
    dtr,         \* the port's data-terminal-ready line
    command,     \* request's command argument
    args,        \* request's args argument, an Option<Vec<String>>
    opts,        \* main's parsed command line (struct Cli)
    request,     \* the local `request`: the line to send
    idx,         \* chunks of `request` taken from the chunks iterator so far
    log,         \* port calls, hook calls and sleeps of the running operation
    buffer,      \* read_reply's scratch buffer (its first ScratchLen bytes)
    reply,       \* read_reply's accumulator
    result,      \* what the operation returned
    stdout,      \* what main printed
    raw,         \* norm: the raw reply drawn
    out1,        \* norm: its normalization
    out2         \* norm: the normalization of out1's bytes

vars == <<prog, pc, op, chunk_size, write_delay, dtr, command, args, opts,
          request, idx, log, buffer, reply, result, stdout, raw, out1, out2>>

(* io::ErrorKind values the port can fail with *)
ErrorKinds == {"TimedOut", "BrokenPipe"}
Outcomes == {"ok"} \cup ErrorKinds

(* Mutations of IsTimedOut: no error, and every error, ends the loop *)
IsTimedOutNever(e) == FALSE
IsTimedOutAlways(e) == TRUE

(* the match guard `e.kind() == io::ErrorKind::TimedOut` of the read loops  *)
IsTimedOut(e) == e = "TimedOut"

(* one entry of the log *)
Ev(o, d, n, r) == [op |-> o, data |-> d, n |-> n, res |-> r]

(* results *)
NoResult == [kind |-> "none", val |-> <<>>, err |-> "", msg |-> ""]
OkUnit == [kind |-> "unit", val |-> <<>>, err |-> "", msg |-> ""]
OkString(s) == [kind |-> "string", val |-> s, err |-> "", msg |-> ""]
Err(e) == [kind |-> "err", val |-> <<>>, err |-> e, msg |-> ""]
(* a panic with its message; e is the error an `expect` failed on *)
Panic(m, e) == [kind |-> "panic", val |-> <<>>, err |-> e, msg |-> m]

(* inputs: what one read may deliver, what bytes_to_read may count *)
RxData == {<<>>, <<97>>, <<LF>>, <<97, LF>>, <<DOT, LF>>}
PollCounts == {0, 1, BufferSize}

(* The scratch buffer is vec![0; 1024]; reads of at most ScratchLen bytes    *)
(* only ever change its first ScratchLen bytes, which are the ones kept here *)
ScratchLen ==
    Min(BufferSize, CHOOSE n \in 0..BufferSize :
                        /\ \E d \in RxData : Len(d) = n
                        /\ \A d \in RxData : Len(d) <= n)
NewBuffer == Rep(0, ScratchLen)

ChunkSizes == (0..MaxChunk) \cup {DefaultChunkSize}
WriteDelays == {DefaultWriteDelay, 10}
LibRequests ==
    { <<<<97>>, None>>,
      <<<<97, 98>>, Some(<<>>)>>,
      <<<<97>>, Some(<<<<98>>>>)>>,
      <<<<97, 98>>, Some(<<<<99>>, <<100>>>>)>> }
CliCommands == {<<97>>, Rep(97, 63), Rep(97, 64), Rep(97, 127)}
CliArgs == {<<>>, <<<<98>>>>}
NoOpts == [command |-> <<>>, args |-> <<>>, quiet |-> FALSE]

CountOk(o) == Cardinality({i \in 1..Len(log) : log[i].op = o /\ log[i].res = "ok"})
ZeroPolls == Cardinality({i \in 1..Len(log) : log[i].op = "poll" /\ log[i].res = "ok"
                                              /\ log[i].n = 0})

Blank ==
    /\ chunk_size = DefaultChunkSize /\ write_delay = DefaultWriteDelay
    /\ dtr = FALSE /\ command = <<>> /\ args = None
    /\ idx = 0 /\ log = <<>> /\ buffer = <<>> /\ reply = <<>>
    /\ result = NoResult /\ stdout = <<>> /\ raw = <<>> /\ out1 = <<>> /\ out2 = <<>>

(* Focus::from(port): lib.rs:27-35 *)
InitLib ==
    /\ prog = "lib" /\ pc = "idle" /\ op = "none" /\ opts = NoOpts /\ request = <<>>
    /\ Blank

(***************************************************************************)
(* The library session: kaleidoscope/src/lib.rs                             *)
(***************************************************************************)
(* Every call of the session's API starts with a fresh record of the call:   *)
(* the locals of the previous call are gone                                  *)
NoLocals ==
    /\ command' = <<>> /\ args' = None /\ request' = <<>> /\ idx' = 0
    /\ buffer' = <<>> /\ reply' = <<>>
    /\ log' = <<>> /\ result' = NoResult

(* Mutation of Focus_chunk_size: the setter also puts the delay back to its   *)
(* default                                                                   *)
Focus_chunk_size_resets_delay(c) ==
    /\ prog = "lib" /\ pc = "idle"
    /\ chunk_size' = c
    /\ write_delay' = DefaultWriteDelay
    /\ op' = "chunk_size" /\ NoLocals
    /\ UNCHANGED <<prog, pc, dtr, opts, stdout, raw, out1, out2>>

Focus_chunk_size(c) ==
    /\ prog = "lib" /\ pc = "idle"
    /\ chunk_size' = c
    /\ op' = "chunk_size" /\ NoLocals
    /\ UNCHANGED <<prog, pc, write_delay, dtr, opts, stdout, raw, out1, out2>>

Focus_write_delay(d) ==
    /\ prog = "lib" /\ pc = "idle"
    /\ write_delay' = d
    /\ op' = "write_delay" /\ NoLocals
    /\ UNCHANGED <<prog, pc, chunk_size, dtr, opts, stdout, raw, out1, out2>>

(* request_with_progress is entered: the line is built (lib.rs:73) *)
EnterRequest(name, cmd, a) ==
    /\ prog = "lib" /\ pc = "idle"
    /\ op' = name /\ command' = cmd /\ args' = a
    /\ request' = Frame(cmd, unwrap_or_default(a))
    /\ idx' = 0 /\ log' = <<>> /\ result' = NoResult
    /\ buffer' = <<>> /\ reply' = <<>>
    /\ pc' = "req_dtr"
    /\ UNCHANGED <<prog, chunk_size, write_delay, dtr, opts, stdout, raw, out1, out2>>

Focus_request(cmd, a) == EnterRequest("request", cmd, a)

Focus_request_with_progress(cmd, a) == EnterRequest("request_with_progress", cmd, a)

(* Mutation of Focus_flush: the empty command *)
Focus_flush_empty == EnterRequest("flush", <<>>, None)

(* self.request(String::from(" "), None)?  lib.rs:49 *)
Focus_flush == EnterRequest("flush", <<SP>>, None)

Focus_read_reply ==
    /\ prog = "lib" /\ pc = "idle"
    /\ op' = "read_reply"
    /\ command' = <<>> /\ args' = None /\ request' = <<>> /\ idx' = 0
    /\ log' = <<>> /\ result' = NoResult
    /\ buffer' = NewBuffer /\ reply' = <<>>
    /\ pc' = "rd_dsr"
    /\ UNCHANGED <<prog, chunk_size, write_delay, dtr, opts, stdout, raw, out1, out2>>

(* the operation returns r to the session's user *)
Return(r) ==
    /\ pc' = "idle" /\ result' = r

(* Mutation of Focus_dtr: set_length is called before the line is asserted *)
Focus_dtr_after_length ==
    /\ prog = "lib" /\ pc = "req_dtr"
    /\ \E r \in Outcomes :
         /\ log' = log \o <<Ev("on_length", <<>>, Len(request), "ok"),
                            Ev("dtr", <<>>, 0, r)>>
         /\ IF r = "ok"
            THEN /\ dtr' = TRUE
                 /\ IF chunk_size = 0
                    THEN pc' = "panicked"
                         /\ result' = Panic("chunk size must be non-zero", "")
                    ELSE pc' = "req_write" /\ UNCHANGED result
            ELSE Return(Err(r)) /\ UNCHANGED dtr
    /\ UNCHANGED <<prog, op, chunk_size, write_delay, command, args, opts, request,
                   idx, buffer, reply, stdout, raw, out1, out2>>

(* self.port.write_data_terminal_ready(true)?  lib.rs:74 *)
Focus_dtr ==
    /\ prog = "lib" /\ pc = "req_dtr"
    /\ \E r \in Outcomes :
         /\ log' = Append(log, Ev("dtr", <<>>, 0, r))
         /\ IF r = "ok"
            THEN dtr' = TRUE /\ pc' = "req_len" /\ UNCHANGED result
            ELSE Return(Err(r)) /\ UNCHANGED dtr
    /\ UNCHANGED <<prog, op, chunk_size, write_delay, command, args, opts, request,
                   idx, buffer, reply, stdout, raw, out1, out2>>

(* Mutation of Focus_set_length: a chunk size of 0 yields no chunk at all *)
Focus_set_length_no_chunks ==
    /\ prog = "lib" /\ pc = "req_len"
    /\ log' = Append(log, Ev("on_length", <<>>, Len(request), "ok"))
    /\ IF chunk_size = 0
       THEN Return(OkUnit)
       ELSE pc' = "req_write" /\ UNCHANGED result
    /\ UNCHANGED <<prog, op, chunk_size, write_delay, dtr, command, args, opts,
                   request, idx, buffer, reply, stdout, raw, out1, out2>>

(* set_length(request.len()), then the chunks iterator is made: lib.rs:76-78. *)
(* chunks(0) panics.                                                          *)
Focus_set_length ==
    /\ prog = "lib" /\ pc = "req_len"
    /\ log' = Append(log, Ev("on_length", <<>>, Len(request), "ok"))
    /\ IF chunk_size = 0
       THEN pc' = "panicked" /\ result' = Panic("chunk size must be non-zero", "")
       ELSE pc' = "req_write" /\ UNCHANGED result
    /\ UNCHANGED <<prog, op, chunk_size, write_delay, dtr, command, args, opts,
                   request, idx, buffer, reply, stdout, raw, out1, out2>>

(* Mutation of Focus_write: progress is reported after the chunk is written *)
Focus_write_progress_after ==
    /\ prog = "lib" /\ pc = "req_write"
    /\ LET c == Chunks(request, chunk_size)[idx + 1]
       IN  \E r \in Outcomes :
             /\ log' = log \o <<Ev("write", c, Len(c), r),
                                Ev("on_progress", <<>>, Len(c), "ok")>>
             /\ IF r = "ok"
                THEN idx' = idx + 1 /\ pc' = "req_sleep" /\ UNCHANGED result
                ELSE Return(Err(r)) /\ UNCHANGED idx
    /\ UNCHANGED <<prog, op, chunk_size, write_delay, dtr, command, args, opts,
                   request, buffer, reply, stdout, raw, out1, out2>>

(* Mutation of Focus_write: the pause is taken before the result of the write *)
(* is looked at                                                              *)
Focus_write_sleep_then_check ==
    /\ prog = "lib" /\ pc = "req_write"
    /\ LET c == Chunks(request, chunk_size)[idx + 1]
       IN  \E r \in Outcomes :
             /\ IF r = "ok"
                THEN /\ log' = log \o <<Ev("on_progress", <<>>, Len(c), "ok"),
                                        Ev("write", c, Len(c), r)>>
                     /\ idx' = idx + 1 /\ pc' = "req_sleep" /\ UNCHANGED result
                ELSE /\ log' = log \o <<Ev("on_progress", <<>>, Len(c), "ok"),
                                        Ev("write", c, Len(c), r),
                                        Ev("sleep", <<>>, write_delay, "ok")>>
                     /\ Return(Err(r)) /\ UNCHANGED idx
    /\ UNCHANGED <<prog, op, chunk_size, write_delay, dtr, command, args, opts,
                   request, buffer, reply, stdout, raw, out1, out2>>

(* progress(c.len()); self.port.write_all(c)?  lib.rs:79-80 *)
Focus_write ==
    /\ prog = "lib" /\ pc = "req_write"
    /\ LET c == Chunks(request, chunk_size)[idx + 1]
       IN  \E r \in Outcomes :
             /\ log' = log \o <<Ev("on_progress", <<>>, Len(c), "ok"),
                                Ev("write", c, Len(c), r)>>
             /\ IF r = "ok"
                THEN idx' = idx + 1 /\ pc' = "req_sleep" /\ UNCHANGED result
                ELSE Return(Err(r)) /\ UNCHANGED idx
    /\ UNCHANGED <<prog, op, chunk_size, write_delay, dtr, command, args, opts,
                   request, buffer, reply, stdout, raw, out1, out2>>

(* Mutation of ThenReads: every request goes on to read the reply *)
ThenReadsAlways(o) == TRUE

(* flush calls read_reply once its request has returned Ok: lib.rs:49-50;   *)
(* request and request_with_progress return (lib.rs:84)                     *)
ThenReads(o) == o = "flush"

(* Mutation of Focus_write_sleep: no pause after the last chunk *)
Focus_write_sleep_not_last ==
    /\ prog = "lib" /\ pc = "req_sleep"
    /\ log' = IF idx < Len(Chunks(request, chunk_size))
              THEN Append(log, Ev("sleep", <<>>, write_delay, "ok"))
              ELSE log
    /\ IF idx < Len(Chunks(request, chunk_size))
       THEN pc' = "req_write" /\ UNCHANGED <<result, buffer>>
       ELSE IF ThenReads(op)
            THEN pc' = "rd_dsr" /\ buffer' = NewBuffer /\ UNCHANGED result
            ELSE Return(OkUnit) /\ UNCHANGED buffer
    /\ UNCHANGED <<prog, op, chunk_size, write_delay, dtr, command, args, opts,
                   request, idx, reply, stdout, raw, out1, out2>>

(* thread::sleep(write_delay), then the next chunk or Ok(()): lib.rs:81-84.  *)
(* flush goes on to read_reply (lib.rs:49-50).                               *)
Focus_write_sleep ==
    /\ prog = "lib" /\ pc = "req_sleep"
    /\ log' = Append(log, Ev("sleep", <<>>, write_delay, "ok"))
    /\ IF idx < Len(Chunks(request, chunk_size))
       THEN pc' = "req_write" /\ UNCHANGED <<result, buffer>>
       ELSE IF ThenReads(op)
            THEN pc' = "rd_dsr" /\ buffer' = NewBuffer /\ UNCHANGED result
            ELSE Return(OkUnit) /\ UNCHANGED buffer
    /\ UNCHANGED <<prog, op, chunk_size, write_delay, dtr, command, args, opts,
                   request, idx, reply, stdout, raw, out1, out2>>

(* Mutation of Focus_dsr: the result of read_data_set_ready is dropped *)
Focus_dsr_ignored ==
    /\ prog = "lib" /\ pc = "rd_dsr"
    /\ \E r \in Outcomes :
         /\ log' = Append(log, Ev("dsr", <<>>, 0, r))
         /\ pc' = "rd_poll" /\ UNCHANGED result
    /\ UNCHANGED <<prog, op, chunk_size, write_delay, dtr, command, args, opts,
                   request, idx, buffer, reply, stdout, raw, out1, out2>>

(* self.port.read_data_set_ready()?  lib.rs:91: the state of the DSR line is *)
(* read and dropped                                                           *)
Focus_dsr ==
    /\ prog = "lib" /\ pc = "rd_dsr"
    /\ \E r \in Outcomes :
         /\ log' = Append(log, Ev("dsr", <<>>, 0, r))
         /\ IF r = "ok" THEN pc' = "rd_poll" /\ UNCHANGED result ELSE Return(Err(r))
    /\ UNCHANGED <<prog, op, chunk_size, write_delay, dtr, command, args, opts,
                   request, idx, buffer, reply, stdout, raw, out1, out2>>

(* Mutation of Focus_bytes_to_read: one poll, then the loop whatever it said *)
Focus_bytes_to_read_once ==
    /\ prog = "lib" /\ pc = "rd_poll"
    /\ \/ \E e \in ErrorKinds :
            /\ log' = Append(log, Ev("poll", <<>>, 0, e))
            /\ Return(Err(e))
       \/ \E n \in PollCounts :
            /\ n = 0 => ZeroPolls < MaxPolls
            /\ log' = Append(log, Ev("poll", <<>>, n, "ok"))
            /\ pc' = "rd_read"
            /\ UNCHANGED result
    /\ UNCHANGED <<prog, op, chunk_size, write_delay, dtr, command, args, opts,
                   request, idx, buffer, reply, stdout, raw, out1, out2>>

(* wait_for_data: while self.port.bytes_to_read()? == 0  lib.rs:119 *)
Focus_bytes_to_read ==
    /\ prog = "lib" /\ pc = "rd_poll"
    /\ \/ \E e \in ErrorKinds :
            /\ log' = Append(log, Ev("poll", <<>>, 0, e))
            /\ Return(Err(e))
       \/ \E n \in PollCounts :
            /\ n = 0 => ZeroPolls < MaxPolls
            /\ log' = Append(log, Ev("poll", <<>>, n, "ok"))
            /\ pc' = IF n = 0 THEN "rd_poll_sleep" ELSE "rd_read"
            /\ UNCHANGED result
    /\ UNCHANGED <<prog, op, chunk_size, write_delay, dtr, command, args, opts,
                   request, idx, buffer, reply, stdout, raw, out1, out2>>

(* thread::sleep(write_delay) in wait_for_data: lib.rs:120 *)
Focus_poll_sleep ==
    /\ prog = "lib" /\ pc = "rd_poll_sleep"
    /\ log' = Append(log, Ev("sleep", <<>>, write_delay, "ok"))
    /\ pc' = "rd_poll"
    /\ UNCHANGED <<prog, op, chunk_size, write_delay, dtr, command, args, opts,
                   request, idx, buffer, reply, result, stdout, raw, out1, out2>>

(* what read_reply returns once its loop has ended: lib.rs:110-115; flush     *)
(* drops the string: lib.rs:50-51                                             *)
ReadReplyValue(o, bytes) ==
    IF o = "flush" THEN OkUnit ELSE OkString(normalize(bytes))

(* Mutation of Focus_read: the whole scratch buffer is appended, not its first *)
(* t bytes                                                                    *)
Focus_read_whole_buffer ==
    /\ prog = "lib" /\ pc = "rd_read"
    /\ \/ \E d \in RxData :
            /\ CountOk("read") < MaxReads
            /\ log' = Append(log, Ev("read", d, Len(d), "ok"))
            /\ buffer' = d \o SubSeq(buffer, Len(d) + 1, Len(buffer))
            /\ reply' = reply \o buffer'
            /\ pc' = "rd_sleep"
            /\ UNCHANGED result
       \/ \E e \in ErrorKinds :
            /\ log' = Append(log, Ev("read", <<>>, 0, e))
            /\ IF IsTimedOut(e)
               THEN Return(ReadReplyValue(op, reply))
               ELSE Return(Err(e))
            /\ UNCHANGED <<buffer, reply>>
    /\ UNCHANGED <<prog, op, chunk_size, write_delay, dtr, command, args, opts,
                   request, idx, stdout, raw, out1, out2>>

(* Mutation of Focus_read: a read of no bytes is taken as the end of the reply *)
Focus_read_eof ==
    /\ prog = "lib" /\ pc = "rd_read"
    /\ \/ \E d \in RxData :
            /\ CountOk("read") < MaxReads
            /\ log' = Append(log, Ev("read", d, Len(d), "ok"))
            /\ buffer' = d \o SubSeq(buffer, Len(d) + 1, Len(buffer))
            /\ reply' = reply \o SubSeq(buffer', 1, Len(d))
            /\ IF Len(d) = 0
               THEN Return(ReadReplyValue(op, reply))
               ELSE pc' = "rd_sleep" /\ UNCHANGED result
       \/ \E e \in ErrorKinds :
            /\ log' = Append(log, Ev("read", <<>>, 0, e))
            /\ IF IsTimedOut(e)
               THEN Return(ReadReplyValue(op, reply))
               ELSE Return(Err(e))
            /\ UNCHANGED <<buffer, reply>>
    /\ UNCHANGED <<prog, op, chunk_size, write_delay, dtr, command, args, opts,
                   request, idx, stdout, raw, out1, out2>>

(* one turn of the loop: match self.port.read(buffer)  lib.rs:95-105 *)
Focus_read ==
    /\ prog = "lib" /\ pc = "rd_read"
    /\ \/ \E d \in RxData :
            /\ CountOk("read") < MaxReads
            /\ log' = Append(log, Ev("read", d, Len(d), "ok"))
            /\ buffer' = d \o SubSeq(buffer, Len(d) + 1, Len(buffer))
            /\ reply' = reply \o SubSeq(buffer', 1, Len(d))
            /\ pc' = "rd_sleep"
            /\ UNCHANGED result
       \/ \E e \in ErrorKinds :
            /\ log' = Append(log, Ev("read", <<>>, 0, e))
            /\ IF IsTimedOut(e)
               THEN Return(ReadReplyValue(op, reply))
               ELSE Return(Err(e))
            /\ UNCHANGED <<buffer, reply>>
    /\ UNCHANGED <<prog, op, chunk_size, write_delay, dtr, command, args, opts,
                   request, idx, stdout, raw, out1, out2>>

(* thread::sleep(write_delay) at the end of the loop body: lib.rs:107 *)
Focus_read_sleep ==
    /\ prog = "lib" /\ pc = "rd_sleep"
    /\ log' = Append(log, Ev("sleep", <<>>, write_delay, "ok"))
    /\ pc' = "rd_read"
    /\ UNCHANGED <<prog, op, chunk_size, write_delay, dtr, command, args, opts,
                   request, idx, buffer, reply, result, stdout, raw, out1, out2>>

NextLib ==
    \/ \E c \in ChunkSizes : Focus_chunk_size(c)
    \/ \E d \in WriteDelays : Focus_write_delay(d)
    \/ \E q \in LibRequests : Focus_request(q[1], q[2])
    \/ \E q \in LibRequests : Focus_request_with_progress(q[1], q[2])
    \/ Focus_flush
    \/ Focus_read_reply
    \/ Focus_dtr
    \/ Focus_set_length
    \/ Focus_write
    \/ Focus_write_sleep
    \/ Focus_dsr
    \/ Focus_bytes_to_read
    \/ Focus_poll_sleep
    \/ Focus_read
    \/ Focus_read_sleep

SpecLib == InitLib /\ [][NextLib]_vars

(***************************************************************************)
(* The command line tool: src/main.rs.  The port has been opened; `op` is   *)
(* "flush" while main is in flush() and "request" afterwards, and the log   *)
(* is that of the current one of these two request/reply cycles.            *)
(***************************************************************************)
CliInputs == [command : CliCommands, args : CliArgs, quiet : BOOLEAN]

(* the arguments of the running send_request: main.rs:126 and main.rs:59 *)
CliCommand == IF op = "flush" THEN <<SP>> ELSE opts.command
CliArguments == IF op = "flush" THEN <<>> ELSE opts.args
CliWithProgress == IF op = "flush" THEN FALSE ELSE ~opts.quiet

(* the messages of the `expect`s: main.rs:126, 128, 59, 64 *)
SendExpect == IF op = "flush" THEN "failed to send an empty command"
              ELSE "failed to send the request to the keyboard"
ReadExpect == IF op = "flush" THEN "failed to flush the device"
              ELSE "failed to read the reply"

(* main has parsed its options and opened the port, and is entering flush *)
InitCli ==
    /\ prog = "cli" /\ pc = "c_dtr" /\ op = "flush"
    /\ opts \in CliInputs
    /\ request = Frame(<<SP>>, <<>>)
    /\ Blank

(* an `expect` fails: the process panics *)
Abort(m, e) == pc' = "panicked" /\ result' = Panic(m, e)

(* port.write_data_terminal_ready(true)?  main.rs:139 *)
send_request_dtr ==
    /\ prog = "cli" /\ pc = "c_dtr"
    /\ \E r \in Outcomes :
         /\ log' = Append(log, Ev("dtr", <<>>, 0, r))
         /\ IF r = "ok"
            THEN dtr' = TRUE /\ pc' = "c_pb" /\ UNCHANGED result
            ELSE Abort(SendExpect, r) /\ UNCHANGED dtr
    /\ UNCHANGED <<prog, op, chunk_size, write_delay, command, args, opts, request,
                   idx, buffer, reply, stdout, raw, out1, out2>>

(* the progress bar: main.rs:141-145 *)
send_request_pb ==
    /\ prog = "cli" /\ pc = "c_pb"
    /\ log' = Append(log, IF CliWithProgress /\ CliArguments # <<>>
                          THEN Ev("pb_new", <<>>, Len(request), "ok")
                          ELSE Ev("pb_hidden", <<>>, 0, "ok"))
    /\ pc' = "c_write"
    /\ UNCHANGED <<prog, op, chunk_size, write_delay, dtr, command, args, opts,
                   request, idx, buffer, reply, result, stdout, raw, out1, out2>>

(* pb.inc(c.len()); port.write_all(c)?  main.rs:148-149 *)
send_request_write ==
    /\ prog = "cli" /\ pc = "c_write"
    /\ LET c == Chunks(request, CliChunkSize)[idx + 1]
       IN  \E r \in Outcomes :
             /\ log' = log \o <<Ev("pb_inc", <<>>, Len(c), "ok"),
                                Ev("write", c, Len(c), r)>>
             /\ IF r = "ok"
                THEN idx' = idx + 1 /\ pc' = "c_sleep" /\ UNCHANGED result
                ELSE Abort(SendExpect, r) /\ UNCHANGED idx
    /\ UNCHANGED <<prog, op, chunk_size, write_delay, dtr, command, args, opts,
                   request, buffer, reply, stdout, raw, out1, out2>>

(* Mutation of send_request_sleep: no pause after the last chunk *)
send_request_sleep_not_last ==
    /\ prog = "cli" /\ pc = "c_sleep"
    /\ IF idx < Len(Chunks(request, CliChunkSize))
       THEN /\ log' = Append(log, Ev("sleep", <<>>, CliWriteDelay, "ok"))
            /\ pc' = "c_write"
       ELSE /\ log' = Append(log, Ev("pb_finish", <<>>, 0, "ok"))
            /\ pc' = "c_poll"
    /\ UNCHANGED <<prog, op, chunk_size, write_delay, dtr, command, args, opts,
                   request, idx, buffer, reply, result, stdout, raw, out1, out2>>

(* thread::sleep(50 ms), then the next chunk, or pb.finish_and_clear() and   *)
(* Ok(()): main.rs:150-154; the caller goes on to wait_for_data              *)
send_request_sleep ==
    /\ prog = "cli" /\ pc = "c_sleep"
    /\ IF idx < Len(Chunks(request, CliChunkSize))
       THEN /\ log' = Append(log, Ev("sleep", <<>>, CliWriteDelay, "ok"))
            /\ pc' = "c_write"
       ELSE /\ log' = log \o <<Ev("sleep", <<>>, CliWriteDelay, "ok"),
                               Ev("pb_finish", <<>>, 0, "ok")>>
            /\ pc' = "c_poll"
    /\ UNCHANGED <<prog, op, chunk_size, write_delay, dtr, command, args, opts,
                   request, idx, buffer, reply, result, stdout, raw, out1, out2>>

(* wait_for_data: port.bytes_to_read().expect(..) == 0  main.rs:158; then   *)
(* read_reply is entered and makes its buffer: main.rs:164-165              *)
wait_for_data_poll ==
    /\ prog = "cli" /\ pc = "c_poll"
    /\ \/ \E e \in ErrorKinds :
            /\ log' = Append(log, Ev("poll", <<>>, 0, e))
            /\ Abort("Error calling bytes_to_read", e)
            /\ UNCHANGED <<buffer, reply>>
       \/ \E n \in PollCounts :
            /\ n = 0 => ZeroPolls < MaxPolls
            /\ log' = Append(log, Ev("poll", <<>>, n, "ok"))
            /\ IF n = 0
               THEN pc' = "c_poll_sleep" /\ UNCHANGED <<buffer, reply>>
               ELSE pc' = "c_dsr" /\ buffer' = NewBuffer /\ reply' = <<>>
            /\ UNCHANGED result
    /\ UNCHANGED <<prog, op, chunk_size, write_delay, dtr, command, args, opts,
                   request, idx, stdout, raw, out1, out2>>

(* thread::sleep(100 ms) in wait_for_data: main.rs:159 *)
wait_for_data_sleep ==
    /\ prog = "cli" /\ pc = "c_poll_sleep"
    /\ log' = Append(log, Ev("sleep", <<>>, CliPollDelay, "ok"))
    /\ pc' = "c_poll"
    /\ UNCHANGED <<prog, op, chunk_size, write_delay, dtr, command, args, opts,
                   request, idx, buffer, reply, result, stdout, raw, out1, out2>>

(* port.read_data_set_ready()?  main.rs:167 *)
read_reply_dsr ==
    /\ prog = "cli" /\ pc = "c_dsr"
    /\ \E r \in Outcomes :
         /\ log' = Append(log, Ev("dsr", <<>>, 0, r))
         /\ IF r = "ok" THEN pc' = "c_read" /\ UNCHANGED result
                        ELSE Abort(ReadExpect, r)
    /\ UNCHANGED <<prog, op, chunk_size, write_delay, dtr, command, args, opts,
                   request, idx, buffer, reply, stdout, raw, out1, out2>>

(* flush has returned: main calls send_request, which builds its line:      *)
(* main.rs:59, 137                                                          *)
EnterCliRequest ==
    /\ op' = "request" /\ pc' = "c_dtr"
    /\ request' = Frame(opts.command, opts.args)
    /\ idx' = 0 /\ buffer' = <<>> /\ reply' = <<>>
    /\ UNCHANGED result

(* one turn of the loop: match port.read(buffer)  main.rs:170-180; on       *)
(* TimedOut read_reply returns the cleaned reply (main.rs:185), which flush *)
(* drops (main.rs:128) and main binds to `reply` (main.rs:64)               *)
read_reply_read ==
    /\ prog = "cli" /\ pc = "c_read"
    /\ \/ \E d \in RxData :
            /\ CountOk("read") < MaxReads
            /\ log' = Append(log, Ev("read", d, Len(d), "ok"))
            /\ buffer' = d \o SubSeq(buffer, Len(d) + 1, Len(buffer))
            /\ reply' = reply \o SubSeq(buffer', 1, Len(d))
            /\ pc' = "c_read_sleep"
            /\ UNCHANGED <<result, op, request, idx>>
       \/ \E e \in ErrorKinds :
            IF IsTimedOut(e)
            THEN IF op = "flush"
                 THEN /\ EnterCliRequest
                      /\ log' = <<>>
                 ELSE /\ log' = Append(log, Ev("read", <<>>, 0, e))
                      /\ result' = OkString(normalize(reply))
                      /\ pc' = "c_print"
                      /\ UNCHANGED <<op, request, idx, buffer, reply>>
            ELSE /\ log' = Append(log, Ev("read", <<>>, 0, e))
                 /\ Abort(ReadExpect, e)
                 /\ UNCHANGED <<op, request, idx, buffer, reply>>
    /\ UNCHANGED <<prog, chunk_size, write_delay, dtr, command, args, opts,
                   stdout, raw, out1, out2>>

(* thread::sleep(100 ms) at the end of the loop body: main.rs:182 *)
read_reply_sleep ==
    /\ prog = "cli" /\ pc = "c_read_sleep"
    /\ log' = Append(log, Ev("sleep", <<>>, CliReadDelay, "ok"))
    /\ pc' = "c_read"
    /\ UNCHANGED <<prog, op, chunk_size, write_delay, dtr, command, args, opts,
                   request, idx, buffer, reply, result, stdout, raw, out1, out2>>

(* println!("{}", reply)  main.rs:65, and main returns *)
main_println ==
    /\ prog = "cli" /\ pc = "c_print"
    /\ stdout' = result.val \o <<LF>>
    /\ log' = Append(log, Ev("println", result.val, Len(result.val), "ok"))
    /\ pc' = "exited"
    /\ UNCHANGED <<prog, op, chunk_size, write_delay, dtr, command, args, opts,
                   request, idx, buffer, reply, result, raw, out1, out2>>

NextCli ==
    \/ send_request_dtr
    \/ send_request_pb
    \/ send_request_write
    \/ send_request_sleep
    \/ wait_for_data_poll
    \/ wait_for_data_sleep
    \/ read_reply_dsr
    \/ read_reply_read
    \/ read_reply_sleep
    \/ main_println

(***************************************************************************)
(* A Focus session or a run of the tool                                     *)
(***************************************************************************)
Init == InitLib \/ InitCli

Next == NextLib \/ NextCli

Spec == Init /\ [][Next]_vars

(***************************************************************************)
(* The request line as a function of the command and the arguments:        *)
(* lib.rs:73 applied to drawn inputs                                        *)
(***************************************************************************)
CmdBytes == {97, SP, LF}
ArgBytes == {98, LF}
EncCommands == SeqsUpTo(CmdBytes, MaxTok)
EncArgs == {None} \cup {Some(v) : v \in SeqsUpTo(SeqsUpTo(ArgBytes, MaxTok), MaxArgs)}

InitEnc ==
    /\ prog = "enc" /\ pc = "enc_start" /\ op = "request" /\ opts = NoOpts
    /\ request = <<>>
    /\ chunk_size = DefaultChunkSize /\ write_delay = DefaultWriteDelay
    /\ dtr = FALSE /\ command \in EncCommands /\ args \in EncArgs
    /\ idx = 0 /\ log = <<>> /\ buffer = <<>> /\ reply = <<>>
    /\ result = NoResult /\ stdout = <<>> /\ raw = <<>> /\ out1 = <<>> /\ out2 = <<>>

Enc_build ==
    /\ prog = "enc" /\ pc = "enc_start"
    /\ request' = Frame(command, unwrap_or_default(args))
    /\ pc' = "enc_built"
    /\ UNCHANGED <<prog, op, chunk_size, write_delay, dtr, command, args, opts,
                   idx, log, buffer, reply, result, stdout, raw, out1, out2>>

SpecEnc == InitEnc /\ [][Enc_build]_vars

(***************************************************************************)
(* The reply as a function of the bytes received: lib.rs:110-115 and        *)
(* main.rs:185-194 applied to drawn inputs, once and then again to the      *)
(* bytes of the first result                                                *)
(***************************************************************************)
NormBytes == {97, DOT, LF, CR, 255}

InitNorm ==
    /\ prog = "norm" /\ pc = "norm_start" /\ op = "none" /\ opts = NoOpts
    /\ request = <<>>
    /\ chunk_size = DefaultChunkSize /\ write_delay = DefaultWriteDelay
    /\ dtr = FALSE /\ command = <<>> /\ args = None
    /\ idx = 0 /\ log = <<>> /\ buffer = <<>> /\ reply = <<>>
    /\ result = NoResult /\ stdout = <<>>
    /\ raw \in SeqsUpTo(NormBytes, MaxRaw) /\ out1 = <<>> /\ out2 = <<>>

Norm_first ==
    /\ prog = "norm" /\ pc = "norm_start"
    /\ out1' = normalize(raw)
    /\ pc' = "norm_once"
    /\ UNCHANGED <<prog, op, chunk_size, write_delay, dtr, command, args, opts, request,
                   idx, log, buffer, reply, result, stdout, raw, out2>>

Norm_second ==
    /\ prog = "norm" /\ pc = "norm_once"
    /\ out2' = normalize(as_bytes(out1))
    /\ pc' = "norm_twice"
    /\ UNCHANGED <<prog, op, chunk_size, write_delay, dtr, command, args, opts, request,
                   idx, log, buffer, reply, result, stdout, raw, out1>>

NextNorm == Norm_first \/ Norm_second

SpecNorm == InitNorm /\ [][NextNorm]_vars

(***************************************************************************)
(* Reading the log                                                          *)
(***************************************************************************)
IsWrite(e) == e.op = "write"
IsOkWrite(e) == e.op = "write" /\ e.res = "ok"
IsOkRead(e) == e.op = "read" /\ e.res = "ok"
ReadPhaseOps == {"dsr", "poll", "read"}
HookOps == {"on_length", "on_progress", "pb_new", "pb_hidden", "pb_inc", "pb_finish"}
DataOf(es) == [i \in 1..Len(es) |-> es[i].data]
Written == DataOf(SelectSeq(log, IsOkWrite))
Received == DataOf(SelectSeq(log, IsOkRead))
At(o) == {i \in 1..Len(log) : log[i].op = o}
ReadPhaseAt == {i \in 1..Len(log) : log[i].op \in ReadPhaseOps}
(* the part of the log before the first step of the read phase *)
SendLog ==
    IF ReadPhaseAt = {} THEN log
    ELSE SubSeq(log, 1, (CHOOSE i \in ReadPhaseAt : \A j \in ReadPhaseAt : i <= j) - 1)
CountIn(es, o) == Cardinality({i \in 1..Len(es) : es[i].op = o})

RequestOps == {"request", "request_with_progress"}
LibReadPcs == {"rd_dsr", "rd_poll", "rd_poll_sleep", "rd_read", "rd_sleep"}
CliReadPcs == {"c_poll", "c_poll_sleep", "c_dsr", "c_read", "c_read_sleep", "c_print",
               "exited"}

(* a request of the library has returned Ok *)
RequestReturnedOk ==
    prog = "lib" /\ op \in RequestOps /\ pc = "idle" /\ result.kind # "err"

(* the send phase of the running (or last) operation has ended in success *)
SendDone ==
    \/ RequestReturnedOk
    \/ prog = "lib" /\ op = "flush" /\ (pc \in LibReadPcs \/ ReadPhaseAt # {})
    \/ prog = "cli" /\ (pc \in CliReadPcs \/ ReadPhaseAt # {})

(* the chunk size the running operation sends with *)
ChunkSizeInForce == IF prog = "cli" THEN CliChunkSize ELSE chunk_size

(***************************************************************************)
(* C1 (as stated): a successful request(command, args) sends the Frame,     *)
(* then collects and normalizes the reply, and returns the NormalizedReply. *)
(***************************************************************************)
C1_RequestReturnsReply ==
    RequestReturnedOk =>
        /\ result.kind = "string"
        /\ ReadPhaseAt # {}

(***************************************************************************)
(* C1 (amended): a successful request performs the send phase only and      *)
(* returns unit: the whole Frame has been written and no step of the read   *)
(* phase has been taken.  The reply is collected and normalized by a        *)
(* separate read_reply, which returns the normalization of the bytes read   *)
(* (the tool composes the two: send_request, wait_for_data, read_reply, and *)
(* prints that string).  A request or read_reply that fails returns the     *)
(* first error it met: the error of its last port call, every earlier call  *)
(* having succeeded.                                                        *)
(***************************************************************************)
C1_RequestSendsOnly ==
    /\ RequestReturnedOk =>
           /\ result = OkUnit
           /\ ReadPhaseAt = {}
           /\ Concat(Written) = Frame(command, unwrap_or_default(args))
    /\ (prog = "lib" /\ op = "read_reply" /\ pc = "idle" /\ result.kind # "err") =>
           /\ result = OkString(normalize(Concat(Received)))
           /\ At("write") = {}
    /\ (prog = "lib" /\ op \in RequestOps \cup {"read_reply"} /\ result.kind = "err") =>
           /\ log # <<>>
           /\ result.err = log[Len(log)].res
           /\ \A i \in 1..(Len(log) - 1) : log[i].res = "ok"
    /\ (prog = "cli" /\ pc = "exited") =>
           /\ Concat(Written) = Frame(opts.command, opts.args)
           /\ stdout = normalize(Concat(Received)) \o <<LF>>
           /\ \A i \in At("write"), j \in ReadPhaseAt : i < j

C1_Witness ==
    /\ RequestReturnedOk
    /\ op = "request"
    /\ Len(Written) >= 2
    /\ args.some /\ Len(args.v) = 2

(***************************************************************************)
(* C2: chunking is a lossless partition.  Once the send phase of a request  *)
(* has succeeded, the byte strings passed to the successive writes,         *)
(* concatenated in call order, are the Frame; every chunk is non-empty and  *)
(* at most chunk-size bytes long, and every chunk but the last is exactly   *)
(* chunk-size bytes long.                                                   *)
(***************************************************************************)
C2_LosslessPartition ==
    SendDone =>
        LET w == DataOf(SelectSeq(SendLog, IsWrite))
            c == ChunkSizeInForce
        IN  /\ Concat(w) = request
            /\ c >= 1
            /\ \A i \in 1..Len(w) :
                 /\ Len(w[i]) >= 1
                 /\ Len(w[i]) <= c
                 /\ i < Len(w) => Len(w[i]) = c

C2_Witness ==
    /\ SendDone
    /\ prog = "lib" /\ chunk_size = 3
    /\ Len(Written) = 3
    /\ Len(Written[3]) = 1

(***************************************************************************)
(* C3: pacing cardinality.  A request that sends a Frame of L bytes with    *)
(* chunk size C makes ceil(L / C) writes, and as many pacing sleeps as      *)
(* writes: every write, the last one too, is followed by a sleep.           *)
(***************************************************************************)
C3_PacingCardinality ==
    SendDone =>
        LET c == ChunkSizeInForce
            L == Len(request)
        IN  /\ CountIn(SendLog, "write") = (L + c - 1) \div c
            /\ CountIn(SendLog, "sleep") = CountIn(SendLog, "write")
            /\ \A i \in 1..Len(SendLog) :
                 SendLog[i].op = "write" =>
                     i < Len(SendLog) /\ SendLog[i + 1].op = "sleep"

C3_Witness ==
    /\ SendDone
    /\ prog = "lib" /\ op = "request_with_progress" /\ chunk_size = 2
    /\ Len(request) = 7
    /\ CountIn(log, "write") = 4
    /\ CountIn(log, "sleep") = 4

(***************************************************************************)
(* C4: Frame construction.  The line built from a command and a list of     *)
(* arguments is the command, then each argument in order, each token        *)
(* followed by one space if another token follows and by the one final      *)
(* newline if none does; with no arguments it is the command and the        *)
(* newline; and when no token holds a newline the line holds none before    *)
(* its last byte.                                                           *)
(***************************************************************************)
RECURSIVE LenBefore(_, _)
LenBefore(toks, k) == IF k <= 1 THEN 0 ELSE LenBefore(toks, k - 1) + Len(toks[k - 1]) + 1

C4_FrameConstruction ==
    (prog = "enc" /\ pc = "enc_built") =>
        LET toks == <<command>> \o (IF args.some THEN args.v ELSE <<>>)
            n == Len(toks)
        IN  /\ Len(request) = LenBefore(toks, n + 1)
            /\ \A k \in 1..n :
                 LET from == LenBefore(toks, k)
                     to == from + Len(toks[k])
                 IN  /\ SubSeq(request, from + 1, to) = toks[k]
                     /\ request[to + 1] = IF k < n THEN SP ELSE LF
            /\ n = 1 => request = Append(command, LF)
            /\ (\A k \in 1..n : \A i \in 1..Len(toks[k]) : toks[k][i] # LF) =>
                 \A i \in 1..(Len(request) - 1) : request[i] # LF

C4_Witness ==
    /\ prog = "enc" /\ pc = "enc_built"
    /\ command = <<97, SP>>
    /\ args = Some(<<<<98, 98>>, <<>>>>)
    /\ request = <<97, SP, SP, 98, 98, SP, LF>>

(***************************************************************************)
(* C5: reply normalization.  The string returned for a raw reply is made of *)
(* exactly the lines of the decoded reply (a line ends at "\n", and a "\r"  *)
(* right before that "\n" belongs to the line ending) that are neither      *)
(* empty nor ".", in their order, with one "\n" between two of them and     *)
(* none at the end; a reply with no such line gives the empty string; and   *)
(* a "\r\n" ending comes out as "\n".                                       *)
(***************************************************************************)
RECURSIVE Ascending(_)
Ascending(S) ==
    IF S = {} THEN <<>>
    ELSE LET lo == CHOOSE x \in S : \A y \in S : x <= y
         IN  <<lo>> \o Ascending(S \ {lo})

(* the lines of text t by position: a line starts at 1 and after every "\n", *)
(* runs up to the next "\n" or the end, and ends before the "\r" of "\r\n"   *)
LinesByPosition(t) ==
    LET n == Len(t)
        starts == Ascending({i \in 1..n : i = 1 \/ t[i - 1] = LF})
        stop(b) == IF \E j \in b..n : t[j] = LF
                   THEN CHOOSE j \in b..n : t[j] = LF /\ \A k \in b..(j - 1) : t[k] # LF
                   ELSE n + 1
        last(b) == LET e == stop(b)
                   IN  IF e <= n /\ e - 1 >= b /\ t[e - 1] = CR THEN e - 2 ELSE e - 1
    IN  [k \in 1..Len(starts) |-> SubSeq(t, starts[k], last(starts[k]))]

IsKept(l) == Len(l) > 0 /\ ~(Len(l) = 1 /\ l[1] = DOT)

(* every line followed by "\n", without the last "\n" *)
NewlineBetween(ls) ==
    LET c == Concat([i \in 1..Len(ls) |-> Append(ls[i], LF)])
    IN  IF c = <<>> THEN <<>> ELSE SubSeq(c, 1, Len(c) - 1)

C5_ReplyNormalization ==
    (prog = "norm" /\ pc # "norm_start") =>
        LET t == from_utf8_lossy(raw)
            ls == LinesByPosition(t)
            kept == SelectSeq(ls, IsKept)
        IN  /\ out1 = NewlineBetween(kept)
            /\ kept = <<>> => out1 = <<>>
            /\ out1 # <<>> => out1[Len(out1)] # LF
            /\ (\A i \in 1..Len(t) : t[i] = CR => (i < Len(t) /\ t[i + 1] = LF))
                  => \A i \in 1..Len(out1) : out1[i] # CR

C5_Witness ==
    /\ prog = "norm" /\ pc = "norm_once"
    /\ raw = <<97, CR, LF, DOT, LF>>
    /\ out1 = <<97>>

(***************************************************************************)
(* C6: normalizer idempotence.  Normalizing the bytes of a normalized reply *)
(* gives that normalized reply again.                                       *)
(***************************************************************************)
C6_Idempotent ==
    (prog = "norm" /\ pc = "norm_twice") => out2 = out1

(***************************************************************************)
(* C7: timeout terminates collection.  When a read signals TimedOut the     *)
(* collection ends there, in success: no port call follows, and the result  *)
(* is the normalization of the bytes of the successful reads, so of the one *)
(* chunk when one chunk was read (flush returns unit).                      *)
(***************************************************************************)
C7_TimeoutTerminates ==
    \A i \in 1..Len(log) :
        (log[i].op = "read" /\ log[i].res = "TimedOut") =>
            /\ \A j \in (i + 1)..Len(log) : log[j].op = "println"
            /\ pc \in {"idle", "c_print", "exited"}
            /\ result = IF op = "flush" THEN OkUnit
                        ELSE OkString(normalize(Concat(Received)))
            /\ (op # "flush" /\ Len(Received) = 1) =>
                   result.val = normalize(Received[1])

C7_Witness ==
    /\ prog = "lib" /\ op = "read_reply" /\ pc = "idle"
    /\ Len(log) > 0 /\ log[Len(log)].op = "read" /\ log[Len(log)].res = "TimedOut"
    /\ Received = <<<<97, LF>>>>
    /\ result = OkString(<<97>>)

(***************************************************************************)
(* C8: a fatal error aborts collection.  When a read fails with an error    *)
(* that is not TimedOut, after any number of successful reads, that read is *)
(* the last port call, the operation ends with that error, and none of the  *)
(* bytes read before is returned or printed.                                *)
(***************************************************************************)
C8_FatalErrorAborts ==
    \A i \in 1..Len(log) :
        (log[i].op = "read" /\ log[i].res \notin {"ok", "TimedOut"}) =>
            /\ i = Len(log)
            /\ pc = IF prog = "lib" THEN "idle" ELSE "panicked"
            /\ result.kind = IF prog = "lib" THEN "err" ELSE "panic"
            /\ result.err = log[i].res
            /\ result.val = <<>>
            /\ stdout = <<>>

C8_Witness ==
    /\ prog = "lib" /\ op = "read_reply" /\ pc = "idle"
    /\ Len(Received) = 2 /\ Concat(Received) = <<97, 97, LF>>
    /\ log[Len(log)].op = "read"
    /\ result = Err("BrokenPipe")

(***************************************************************************)
(* C9: error propagation.  A failed port call is either a read that         *)
(* signalled TimedOut, and then the operation ends in success, or it is the *)
(* last call of the operation, which ends with that very error, whatever    *)
(* its kind: the library operation returns it, the tool panics on it.       *)
(***************************************************************************)
C9_ErrorPropagation ==
    \A i \in 1..Len(log) :
        log[i].res # "ok" =>
            IF log[i].op = "read" /\ log[i].res = "TimedOut"
            THEN result.kind \in {"string", "unit"}
            ELSE /\ i = Len(log)
                 /\ log[i].op \in {"dtr", "write", "dsr", "poll", "read"}
                 /\ pc = IF prog = "lib" THEN "idle" ELSE "panicked"
                 /\ result.kind = IF prog = "lib" THEN "err" ELSE "panic"
                 /\ result.err = log[i].res

C9_Witness ==
    /\ prog = "lib" /\ op = "flush" /\ pc = "idle"
    /\ Len(log) > 0 /\ log[Len(log)].op = "poll" /\ log[Len(log)].res = "TimedOut"
    /\ result = Err("TimedOut")

(***************************************************************************)
(* C10: write phase before read phase.  In a request/reply cycle, when the  *)
(* first step of the read phase (the DSR step, a bytes_to_read poll or a    *)
(* read) is taken, the whole Frame has been written, every write succeeded  *)
(* and the sleep after the last write is over; and no write follows a step  *)
(* of the read phase.                                                       *)
(***************************************************************************)
C10_WriteBeforeRead ==
    /\ \A i \in At("write"), j \in ReadPhaseAt : i < j
    /\ (ReadPhaseAt # {} \/ pc \in LibReadPcs \cup CliReadPcs) =>
           /\ Concat(DataOf(SelectSeq(SendLog, IsOkWrite))) = request
           /\ \A i \in At("write") :
                /\ log[i].res = "ok"
                /\ i < Len(SendLog)
                /\ SendLog[i + 1].op = "sleep"

C10_Witness ==
    /\ prog = "cli" /\ op = "request" /\ pc = "c_read_sleep"
    /\ Len(Written) = 3
    /\ Len(Received) = 2

(***************************************************************************)
(* C11: flush sends exactly the Frame " \n" (the command " ", no            *)
(* arguments), then runs one full reply collection and drops its result: a  *)
(* flush whose two phases succeed returns unit whatever was read, and a     *)
(* flush whose send phase fails ends with that error without any step of    *)
(* the read phase.                                                          *)
(***************************************************************************)
SendFailedAt == {i \in 1..Len(log) : log[i].op \in {"dtr", "write"} /\ log[i].res # "ok"}

C11_Flush ==
    (prog \in {"lib", "cli"} /\ op = "flush") =>
        /\ request = <<SP, LF>>
        /\ Concat(Written) \in {<<>>, <<SP>>, <<SP, LF>>}
        /\ (prog = "lib" /\ pc = "idle" /\ result.kind # "err") =>
               /\ result = OkUnit
               /\ Concat(Written) = <<SP, LF>>
               /\ Cardinality(At("dsr")) = 1
               /\ log[Len(log)].op = "read" /\ log[Len(log)].res = "TimedOut"
        /\ \A i \in SendFailedAt :
               /\ i = Len(log)
               /\ ReadPhaseAt = {}
               /\ result.err = log[i].res
               /\ result.kind = IF prog = "lib" THEN "err" ELSE "panic"

C11_Witness ==
    /\ prog = "lib" /\ op = "flush" /\ pc = "idle"
    /\ result = OkUnit
    /\ Received = <<<<97, LF>>, <<DOT, LF>>>>

(***************************************************************************)
(* C12: in every request the data-terminal-ready line is asserted exactly   *)
(* once, as the first step, so before the first byte is written; when that  *)
(* assertion fails the request ends with the error and nothing else has     *)
(* happened: no byte written, no on_length, no on_progress.                 *)
(***************************************************************************)
Sending == (prog = "lib" /\ op \in RequestOps \cup {"flush"}) \/ prog = "cli"

C12_DtrFirst ==
    Sending =>
        /\ At("dtr") \subseteq {1}
        /\ log # <<>> => log[1].op = "dtr"
        /\ (pc \notin {"req_dtr", "c_dtr"}) => At("dtr") = {1}
        /\ (log # <<>> /\ log[1].res = "ok") => dtr
        /\ (log # <<>> /\ log[1].res # "ok") =>
               /\ Len(log) = 1
               /\ result.err = log[1].res
               /\ result.kind = IF prog = "lib" THEN "err" ELSE "panic"

C12_Witness ==
    /\ prog = "lib" /\ op = "request_with_progress" /\ pc = "idle"
    /\ log = <<Ev("dtr", <<>>, 0, "BrokenPipe")>>
    /\ result = Err("BrokenPipe")

(***************************************************************************)
(* C13: in every reply collection the ready-to-receive step happens exactly *)
(* once and is the first step of the collection: it comes before the first  *)
(* bytes_to_read poll and before the first read, in Focus::read_reply and   *)
(* in the CLI's wait_for_data followed by read_reply alike; and the step    *)
(* sets a control line of the port (dtr is the one output line of the port  *)
(* that either program ever writes).                                        *)
(***************************************************************************)
FirstOf(S) == CHOOSE i \in S : \A j \in S : i <= j

ReadyStepFirst == ReadPhaseAt # {} => log[FirstOf(ReadPhaseAt)].op = "dsr"

ReadyStepOnce ==
    /\ Cardinality(At("dsr")) <= 1
    /\ At("read") # {} => Cardinality(At("dsr")) = 1

ReadyStepSetsLine ==
    (\E i \in At("dsr") : log[i].res = "ok") => dtr

C13_ReadyToReceiveFirst ==
    prog \in {"lib", "cli"} =>
        /\ ReadyStepFirst
        /\ ReadyStepOnce
        /\ ReadyStepSetsLine

(***************************************************************************)
(* C14: in a request of the library whose send phase succeeds, on_length is *)
(* called exactly once, with the length of the whole Frame, right after the *)
(* DTR step and before any on_progress or write; every chunk has one        *)
(* on_progress call, with the length of that chunk, immediately before the  *)
(* write of that chunk, so the reported lengths add up to the length of the *)
(* Frame; and no hook is called once the read phase has begun.              *)
(***************************************************************************)
RECURSIVE SumN(_)
SumN(es) == IF es = <<>> THEN 0 ELSE es[1].n + SumN(Tail(es))

IsProgress(e) == e.op = "on_progress"

LibSendDone == prog = "lib" /\ SendDone

C14_HookOrdering ==
    LibSendDone =>
        LET cs == Chunks(request, chunk_size)
            ps == SelectSeq(log, IsProgress)
        IN  /\ log[1].op = "dtr"
            /\ At("on_length") = {2}
            /\ log[2].n = Len(request)
            /\ Len(ps) = Len(cs)
            /\ \A k \in 1..Len(ps) : ps[k].n = Len(cs[k])
            /\ SumN(ps) = Len(request)
            /\ \A i \in At("on_progress") :
                   /\ i > 2 /\ i < Len(log)
                   /\ log[i + 1].op = "write"
                   /\ Len(log[i + 1].data) = log[i].n
            /\ \A i \in At("write") : log[i - 1].op = "on_progress"
            /\ \A i \in 1..Len(log) : \A j \in ReadPhaseAt :
                   log[i].op \in HookOps => i < j

C14_Witness ==
    /\ RequestReturnedOk /\ op = "request_with_progress"
    /\ chunk_size = 3 /\ Len(request) = 7
    /\ CountIn(log, "on_progress") = 3
    /\ log[Len(log) - 2].n = 1

(***************************************************************************)
(* C15: when the write of chunk k fails, the send ends there with that      *)
(* error: the failed write is the last event of the call, so no later chunk *)
(* is written or announced and no pause follows it; the pauses taken and    *)
(* the writes that succeeded both number k-1, and the bytes that went out   *)
(* are exactly the first k-1 chunks of the Frame.                           *)
(***************************************************************************)
FailedWriteAt == {i \in At("write") : log[i].res # "ok"}

C15_WriteErrorAborts ==
    (prog \in {"lib", "cli"}) =>
        \A i \in FailedWriteAt :
            LET k  == Cardinality(At("write"))
                cs == Chunks(request, ChunkSizeInForce)
            IN  /\ i = Len(log)
                /\ result.err = log[i].res
                /\ result.kind = IF prog = "lib" THEN "err" ELSE "panic"
                /\ pc = IF prog = "lib" THEN "idle" ELSE "panicked"
                /\ k <= Len(cs)
                /\ log[i].data = cs[k]
                /\ CountOk("write") = k - 1
                /\ CountIn(log, "sleep") = k - 1
                /\ CountIn(log, "on_progress") + CountIn(log, "pb_inc") = k
                /\ Written = SubSeq(cs, 1, k - 1)
                /\ ReadPhaseAt = {}

C15_Witness ==
    /\ prog = "lib" /\ op = "request" /\ chunk_size = 3 /\ Len(request) = 7
    /\ Cardinality(At("write")) = 2
    /\ log[Len(log)] = Ev("write", SubSeq(request, 4, 6), 3, "BrokenPipe")
    /\ result = Err("BrokenPipe")

(***************************************************************************)
(* C16: a collection makes no read before a bytes_to_read poll has returned *)
(* a non-zero count; a poll that returns zero is followed by a pause and    *)
(* another poll; and nothing else ends the wait: as long as every poll has  *)
(* returned zero without an error the collection is still polling, it has   *)
(* neither returned a reply nor failed.                                     *)
(***************************************************************************)
ZeroPollAt == {i \in At("poll") : log[i].res = "ok" /\ log[i].n = 0}
DataPollAt == {i \in At("poll") : log[i].res = "ok" /\ log[i].n > 0}
PollDelay == IF prog = "cli" THEN CliPollDelay ELSE write_delay
WaitPcs == {"rd_poll", "rd_poll_sleep", "c_poll", "c_poll_sleep"}

C16_WaitForFirstByte ==
    (prog \in {"lib", "cli"}) =>
        /\ \A i \in At("read") : \E j \in DataPollAt : j < i
        /\ \A i \in ZeroPollAt :
               /\ i < Len(log) => log[i + 1] = Ev("sleep", <<>>, PollDelay, "ok")
               /\ i + 1 < Len(log) => log[i + 2].op = "poll"
        /\ (At("poll") # {} /\ At("poll") = ZeroPollAt) =>
               /\ pc \in WaitPcs
               /\ result = NoResult
               /\ At("read") = {}

C16_Witness ==
    /\ prog = "lib" /\ op = "read_reply"
    /\ Cardinality(ZeroPollAt) = MaxPolls
    /\ DataPollAt # {}
    /\ \E i \in At("read") : log[i].res = "ok"

(***************************************************************************)
(* C17: at every point of a collection the accumulated reply is the         *)
(* concatenation, in the order of the reads, of the first t bytes of the    *)
(* scratch buffer of each successful read of count t, so its length is the  *)
(* sum of the counts; a byte that an earlier, longer read left further on   *)
(* in the scratch buffer is not appended; and from one step of a call to    *)
(* the next the length of the reply never goes down.                        *)
(***************************************************************************)
AccumulatorIsReads ==
    (prog \in {"lib", "cli"}) =>
        /\ reply = Concat(Received)
        /\ Len(reply) = SumN(SelectSeq(log, IsOkRead))
        /\ Received # <<>> =>
               /\ Len(buffer) = ScratchLen
               /\ SubSeq(buffer, 1, Len(Received[Len(Received)]))
                    = Received[Len(Received)]

AccumulatorGrows ==
    (prog \in {"lib", "cli"} /\ Len(log') > Len(log)) => Len(reply') >= Len(reply)

C17_Accumulator == []AccumulatorIsReads /\ [][AccumulatorGrows]_vars

C17_Witness ==
    /\ prog = "lib" /\ op = "read_reply"
    /\ Received = <<<<97, LF>>, <<97>>>>
    /\ buffer = <<97, LF>>
    /\ reply = <<97, LF, 97>>

(***************************************************************************)
(* C18: the configuration of a library session changes only in its setters. *)
(* A new session has chunk_size 32 and write_delay 500; no step of flush,   *)
(* request, request_with_progress or read_reply, from its call to its       *)
(* return in success or failure, changes either field; the chunk_size       *)
(* setter changes chunk_size alone and the write_delay setter write_delay   *)
(* alone; and every chunk written and every pause taken by a call has the   *)
(* size and the length that were in force when the call began.              *)
(***************************************************************************)
IsSleep(e) == e.op = "sleep"

ConfigInForce ==
    prog = "lib" =>
        /\ op = "none" => (chunk_size = 32 /\ write_delay = 500)
        /\ \A i \in At("sleep") : log[i].n = write_delay
        /\ \A i \in At("write") : Len(log[i].data) <= chunk_size
        /\ LET ws == SelectSeq(log, IsWrite)
           IN  \A k \in 1..Len(ws) : ws[k].data = Chunks(request, chunk_size)[k]

ConfigStep ==
    prog = "lib" =>
        /\ (pc # "idle" \/ pc' # "idle") =>
               (chunk_size' = chunk_size /\ write_delay' = write_delay)
        /\ chunk_size' # chunk_size =>
               (op' = "chunk_size" /\ write_delay' = write_delay /\ dtr' = dtr)
        /\ write_delay' # write_delay =>
               (op' = "write_delay" /\ chunk_size' = chunk_size /\ dtr' = dtr)
        /\ (pc = "idle" /\ op' = "chunk_size") => write_delay' = write_delay
        /\ (pc = "idle" /\ op' = "write_delay") => chunk_size' = chunk_size

C18_ConfigOnlyBySetters == []ConfigInForce /\ [][ConfigStep]_vars

C18_Witness ==
    /\ RequestReturnedOk
    /\ chunk_size = 2 /\ write_delay = 10
    /\ Len(request) = 7
    /\ CountIn(log, "write") = 4
    /\ CountIn(log, "sleep") = 4
    /\ \A i \in At("sleep") : log[i].n = 10

(***************************************************************************)
(* C19: the read loop of a collection ends only on an error outcome of      *)
(* read.  A read that succeeds, with no byte as much as with some, is       *)
(* followed by a pause and another read; while the latest read succeeded    *)
(* the collection is still in its loop with no result; and a collection     *)
(* that has left the loop did so on a read that returned an error.          *)
(***************************************************************************)
LastOf(S) == CHOOSE i \in S : \A j \in S : j <= i
OkReadAt == {i \in At("read") : log[i].res = "ok"}
ReadDelay == IF prog = "cli" THEN CliReadDelay ELSE write_delay
LoopPcs == {"rd_read", "rd_sleep", "c_read", "c_read_sleep"}

C19_LoopEndsOnlyOnError ==
    (prog \in {"lib", "cli"}) =>
        /\ \A i \in OkReadAt :
               /\ i < Len(log) => log[i + 1] = Ev("sleep", <<>>, ReadDelay, "ok")
               /\ i + 1 < Len(log) => log[i + 2].op = "read"
        /\ (OkReadAt # {} /\ At("read") = OkReadAt) =>
               (pc \in LoopPcs /\ result = NoResult)
        /\ (At("read") # {} /\ pc \notin LoopPcs) =>
               /\ log[LastOf(At("read"))].res # "ok"
               /\ \A j \in ReadPhaseAt : j <= LastOf(At("read"))

C19_Witness ==
    /\ prog = "lib" /\ op = "read_reply" /\ pc = "rd_sleep"
    /\ Received = <<<<>>, <<>>>>
    /\ result = NoResult

(***************************************************************************)
(* C20: the chunk_size setter takes 0 like any other value, and a request   *)
(* made with chunk_size 0 never returns success: once DTR is asserted and   *)
(* on_length has been called it panics, before any on_progress, write or    *)
(* pause; it neither loops nor sends the Frame.                             *)
(***************************************************************************)
C20_ZeroChunkSize ==
    (prog = "lib" /\ chunk_size = 0 /\ op \in RequestOps \cup {"flush"}) =>
        /\ result.kind \in {"none", "err", "panic"}
        /\ At("on_progress") \cup At("write") \cup At("sleep") \cup ReadPhaseAt = {}
        /\ Len(log) <= 2
        /\ result.kind = "err" => (Len(log) = 1 /\ log[1].op = "dtr" /\ log[1].res # "ok")
        /\ Len(log) = 2 =>
               /\ log = <<Ev("dtr", <<>>, 0, "ok"),
                          Ev("on_length", <<>>, Len(request), "ok")>>
               /\ pc = "panicked"
               /\ result.kind = "panic"
        /\ pc \in {"req_dtr", "req_len", "idle", "panicked"}

C20_Witness ==
    /\ prog = "lib" /\ chunk_size = 0 /\ op = "request_with_progress"
    /\ pc = "panicked"
    /\ result = Panic("chunk size must be non-zero", "")
    /\ log = <<Ev("dtr", <<>>, 0, "ok"), Ev("on_length", <<>>, Len(request), "ok")>>

====
